---- MODULE Spec2Model ----
(***************************************************************************)
(* Model of src/components/sections/UptimeKuma.tsx: the UptimeKuma        *)
(* component's polling effect (useEffect / fetchData) and its history     *)
(* downsampling routine buildHistorySegments.                              *)
(***************************************************************************)
EXTENDS Integers, Sequences, FiniteSets

\* ------------------------------------------------------------------------
\* Bounds of the model
\* ------------------------------------------------------------------------
\* longest heartbeat list passed to buildHistorySegments
MaxLen == 3

\* largest explicit bucket count (the default, DefaultSize, is tried too)
MaxSize == 3

\* longest heartbeat list that is passed a second time in shuffled order
MaxShuffleLen == 2

\* number of fetchData invocations followed
MaxPolls == 2

\* ------------------------------------------------------------------------
\* Heartbeats
\* ------------------------------------------------------------------------
\* default of the parameter `size`
DefaultSize == 24

\* Number.NaN, the result of getTime() on an Invalid Date; every valid
\* timestamp of the model is positive, so -1 is free to stand for it
NaN == -1

\* values of Heartbeat.time (a string)
TimeStrings ==
    { "1970-01-01T00:00:01Z", "1970-01-01T00:00:02Z", "1970-01-01T00:00:03Z",
      "not a date" }

\* Heartbeat.status: 0 is down, 1 is up
Statuses == {0, 1}

\* interface Heartbeat, the fields buildHistorySegments and its callers read
Heartbeat == [time : TimeStrings, status : Statuses]

\* new Date(time).getTime(): milliseconds since the epoch, NaN when the
\* string does not parse
GetTime(time) ==
    CASE time = "1970-01-01T00:00:01Z" -> 1000
      [] time = "1970-01-01T00:00:02Z" -> 2000
      [] time = "1970-01-01T00:00:03Z" -> 3000
      [] OTHER -> NaN

\* the comparator handed to sort: the difference of the two times, which is
\* NaN when either is NaN
CompareFn(a, b) ==
    IF GetTime(a.time) = NaN \/ GetTime(b.time) = NaN
    THEN NaN
    ELSE GetTime(a.time) - GetTime(b.time)

\* Array.prototype.sort reads a comparator result of NaN as +0
SortCompare(a, b) ==
    IF GetTime(a.time) = NaN \/ GetTime(b.time) = NaN
    THEN 0
    ELSE CompareFn(a, b)

\* the elements of a sequence
Range(s) == { s[i] : i \in 1..Len(s) }

\* whether the comparator is a consistent comparator for the values of s
\* (ECMAScript, Array.prototype.sort): equality under it is transitive and
\* so are less-than and greater-than
ConsistentComparator(s) ==
    \A a \in Range(s), b \in Range(s), c \in Range(s) :
        /\ (SortCompare(a, b) = 0 /\ SortCompare(b, c) = 0) => SortCompare(a, c) = 0
        /\ (SortCompare(a, b) < 0 /\ SortCompare(b, c) < 0) => SortCompare(a, c) < 0
        /\ (SortCompare(a, b) > 0 /\ SortCompare(b, c) > 0) => SortCompare(a, c) > 0

\* x inserted into the sorted sequence s behind every element not greater
\* than it
Insert(s, x) ==
    LET before == { i \in 1..Len(s) : SortCompare(s[i], x) <= 0 }
        k == IF before = {} THEN 0
             ELSE CHOOSE i \in before : \A j \in before : j <= i
    IN  SubSeq(s, 1, k) \o <<x>> \o SubSeq(s, k + 1, Len(s))

RECURSIVE StableSort_Descending(_)
\* StableSort with the comparator's operands exchanged (b - a)
StableSort_Descending(s) ==
    IF s = <<>> THEN <<>>
    ELSE LET rest == StableSort_Descending(SubSeq(s, 1, Len(s) - 1))
             x == s[Len(s)]
             before == { i \in 1..Len(rest) : SortCompare(x, rest[i]) <= 0 }
             k == IF before = {} THEN 0
                  ELSE CHOOSE i \in before : \A j \in before : j <= i
         IN  SubSeq(rest, 1, k) \o <<x>> \o SubSeq(rest, k + 1, Len(rest))

RECURSIVE StableSort(_)
\* the stable ascending sort that sort performs with a consistent comparator
StableSort(s) ==
    IF s = <<>> THEN <<>>
    ELSE Insert(StableSort(SubSeq(s, 1, Len(s) - 1)), s[Len(s)])

\* the rearrangements of s
Permutations(s) ==
    LET n == Len(s)
        bij == { f \in [1..n -> 1..n] : \A i \in 1..n, j \in 1..n : f[i] = f[j] => i = j }
    IN  { [i \in 1..n |-> s[f[i]]] : f \in bij }

\* SortOutcomes without the sort: the list as given
SortOutcomes_Unsorted(hb) == { hb }

\* the results [...heartbeats].sort(comparator) can have: the stable sort,
\* or an order the engine chooses when the comparator is not consistent
SortOutcomes(hb) ==
    IF ConsistentComparator(hb) THEN { StableSort(hb) } ELSE Permutations(hb)

\* Math.ceil(n / d) for positive d
Ceil(n, d) == (n + d - 1) \div d

\* Math.max
Max(a, b) == IF a >= b THEN a ELSE b

\* Math.min, as Array.prototype.slice clamps its indices
Min(a, b) == IF a <= b THEN a ELSE b

\* s.slice(from, to) with zero-based, non-negative indices
Slice(s, from, to) == SubSeq(s, Min(from, Len(s)) + 1, Min(to, Len(s)))

\* chunkSize of buildHistorySegments
ChunkSize(len, sz) == Ceil(len, sz)

\* recent of buildHistorySegments
Recent(srt, sz) ==
    LET startIndex == Max(0, Len(srt) - ChunkSize(Len(srt), sz) * sz)
    IN  Slice(srt, startIndex, Len(srt))

\* chunk of bucket index (zero-based)
Chunk(srt, sz, index) ==
    LET chunkSize == ChunkSize(Len(srt), sz)
    IN  Slice(Recent(srt, sz), index * chunkSize, (index + 1) * chunkSize)

\* Segments without the padding: one bucket per non-empty chunk
Segments_NoPad(srt, sz) ==
    LET filled == { k \in 1..sz : Len(Chunk(srt, sz, k - 1)) > 0 }
    IN  [ k \in 1..Cardinality(filled) |->
            LET chunk == Chunk(srt, sz, k - 1) IN chunk[Len(chunk)] ]

\* Segments with the first heartbeat of each chunk for the last
Segments_FirstOfChunk(srt, sz) ==
    LET recent == Recent(srt, sz)
        lastHeartbeat == recent[Len(recent)]
    IN  [ k \in 1..sz |->
            LET chunk == Chunk(srt, sz, k - 1)
            IN  IF Len(chunk) > 0 THEN chunk[1] ELSE lastHeartbeat ]

\* Segments padding with the oldest heartbeat of recent for the most recent
Segments_PadOldest(srt, sz) ==
    LET recent == Recent(srt, sz)
        firstHeartbeat == recent[1]
    IN  [ k \in 1..sz |->
            LET chunk == Chunk(srt, sz, k - 1)
            IN  IF Len(chunk) > 0 THEN chunk[Len(chunk)] ELSE firstHeartbeat ]

\* the buckets built from the non-empty sorted list srt
Segments(srt, sz) ==
    LET recent == Recent(srt, sz)
        lastHeartbeat == recent[Len(recent)]
    IN  [ k \in 1..sz |->
            LET chunk == Chunk(srt, sz, k - 1)
            IN  IF Len(chunk) > 0 THEN chunk[Len(chunk)] ELSE lastHeartbeat ]

\* EmptyResult as size empty markers
EmptyResult_Padded(sz) == [ k \in 1..sz |-> [time |-> "", status |-> 2] ]

\* the result for an empty list
EmptyResult(sz) == <<>>

\* ------------------------------------------------------------------------
\* The polling effect
\* ------------------------------------------------------------------------
\* A URL is the sequence of the pieces its "/" separate, the origin being the
\* first piece: <<"https://kuma.example", "api", "status-page", "main">> is
\* https://kuma.example/api/status-page/main, a last piece "" is a trailing
\* slash, and <<>> is the empty string (no URL configured).
Origin == "https://kuma.example"

\* values of uptimeKumaApiUrl
Urls ==
    { <<>>,
      <<Origin>>,
      <<Origin, "">>,
      <<Origin, "api", "status-page", "main">>,
      <<Origin, "api", "status-page", "heartbeat", "main">> }

\* uptimeKumaApiUrl.replace(/\/$/, "")
NormalizedUrl(u) ==
    IF Len(u) > 1 /\ u[Len(u)] = "" THEN SubSeq(u, 1, Len(u) - 1) ELSE u

\* normalizedUrl.includes("/api/status-page/")
IncludesStatusPage(n) ==
    \E i \in 2..Len(n) : n[i] = "api" /\ i + 2 <= Len(n) /\ n[i + 1] = "status-page"

\* whether /\/api\/status-page\/([^/]+)$/ matches
MatchesSlug(n) ==
    /\ Len(n) >= 4
    /\ n[Len(n) - 2] = "api"
    /\ n[Len(n) - 1] = "status-page"
    /\ n[Len(n)] # ""

\* statusUrl of fetchData
StatusUrl(u) ==
    LET n == NormalizedUrl(u)
    IN  IF IncludesStatusPage(n) THEN n ELSE n \o <<"api", "status-page", "0">>

\* heartbeatUrl of fetchData
HeartbeatUrl(u) ==
    LET n == NormalizedUrl(u)
    IN  IF IncludesStatusPage(n)
        THEN IF MatchesSlug(n)
             THEN SubSeq(n, 1, Len(n) - 1) \o <<"heartbeat", n[Len(n)]>>
             ELSE n
        ELSE n \o <<"api", "status-page", "heartbeat", "0">>

\* the initial value null of statusData and heartbeatData
NoData == [poll |-> 0, from |-> <<>>]

\* the initial value null of error
NoError == "null"

\* the message fetchData's catch stores
LoadError == "Failed to load status data"

\* what statusRes.json() gives invocation p of fetchData: the body served by
\* statusUrl to that invocation
StatusJson(p, u) == [poll |-> p, from |-> StatusUrl(u)]

\* what heartbeatRes.json() gives invocation p
HeartbeatJson(p, u) == [poll |-> p, from |-> HeartbeatUrl(u)]

\* the invocations of fetchData followed
Polls == 1..MaxPolls

VARIABLES
    heartbeats,   \* argument heartbeats of the last call
    size,         \* argument size of the last call
    sorted,       \* the local sorted of the last call
    segments,     \* what the last call returned
    thrown,       \* what the last call threw, "none" when it returned
    shuffled,     \* heartbeats in another order, the argument of a second call
    segments2,    \* what the second call returned
    pc,           \* "idle", "built" after the call, "both" after the second
    uptimeKumaApiUrl, \* the configured URL
    mounted,      \* whether the component is mounted
    effectPending,\* whether the effect has yet to run for the current URL
    intervalOn,   \* whether the setInterval timer is set
    intervalUrl,  \* the uptimeKumaApiUrl the timer's fetchData closes over
    statusData,
    heartbeatData,
    loading,
    error,
    pollState,    \* where each invocation of fetchData is
    pollUrl,      \* the uptimeKumaApiUrl each invocation closes over
    pollStale,    \* whether the effect that started the invocation was cleaned up
    nextPoll      \* the number of the next invocation

segVars == <<heartbeats, size, sorted, segments, thrown, shuffled, segments2, pc>>

pollVars ==
    <<uptimeKumaApiUrl, mounted, effectPending, intervalOn, intervalUrl,
      statusData, heartbeatData, loading, error,
      pollState, pollUrl, pollStale, nextPoll>>

vars == <<segVars, pollVars>>

\* bucket counts tried
Sizes == (1..MaxSize) \cup {DefaultSize}

\* heartbeat lists tried
Inputs == UNION { [1..n -> Heartbeat] : n \in 0..MaxLen }

Init ==
    /\ heartbeats = <<>>
    /\ size = DefaultSize
    /\ sorted = <<>>
    /\ segments = <<>>
    /\ thrown = "none"
    /\ shuffled = <<>>
    /\ segments2 = <<>>
    /\ pc = "idle"
    /\ uptimeKumaApiUrl = <<>>
    /\ mounted = TRUE
    /\ effectPending = TRUE
    /\ intervalOn = FALSE
    /\ intervalUrl = <<>>
    /\ statusData = NoData
    /\ heartbeatData = NoData
    /\ loading = TRUE
    /\ error = NoError
    /\ pollState = [p \in Polls |-> "unstarted"]
    /\ pollUrl = [p \in Polls |-> <<>>]
    /\ pollStale = [p \in Polls |-> FALSE]
    /\ nextPoll = 1

\* buildHistorySegments(hb, sz): the results it can return
buildHistorySegments(hb, sz, srt) ==
    IF Len(hb) = 0 THEN EmptyResult(sz) ELSE Segments(srt, sz)

\* a call buildHistorySegments(hb, sz)
Build ==
    /\ pc = "idle"
    /\ \E hb \in Inputs, sz \in Sizes :
         \E srt \in (IF Len(hb) = 0 THEN {<<>>} ELSE SortOutcomes(hb)) :
            /\ heartbeats' = hb
            /\ size' = sz
            /\ sorted' = srt
            /\ segments' = buildHistorySegments(hb, sz, srt)
    /\ thrown' = "none"
    /\ pc' = "built"
    /\ UNCHANGED <<shuffled, segments2>>
    /\ UNCHANGED pollVars

\* a second call, on the same heartbeats in another order
BuildShuffled ==
    /\ pc = "built"
    /\ Len(heartbeats) <= MaxShuffleLen
    /\ \E p \in Permutations(heartbeats) :
         \E srt \in (IF Len(p) = 0 THEN {<<>>} ELSE SortOutcomes(p)) :
            /\ shuffled' = p
            /\ segments2' = buildHistorySegments(p, size, srt)
    /\ pc' = "both"
    /\ UNCHANGED <<heartbeats, size, sorted, segments, thrown>>
    /\ UNCHANGED pollVars

\* the results are dropped
Forget ==
    /\ pc \in {"built", "both"}
    /\ pc' = "idle"
    /\ heartbeats' = <<>>
    /\ size' = DefaultSize
    /\ sorted' = <<>>
    /\ segments' = <<>>
    /\ thrown' = "none"
    /\ shuffled' = <<>>
    /\ segments2' = <<>>
    /\ UNCHANGED pollVars

NextSegments == Build \/ BuildShuffled \/ Forget

SpecSegments == Init /\ [][NextSegments]_vars

\* ------------------------------------------------------------------------
\* fetchData and the effect
\* ------------------------------------------------------------------------
\* HandleFailure that also drops the held data
HandleFailure_ClearsData ==
    /\ error' = IF mounted THEN LoadError ELSE error
    /\ loading' = IF mounted THEN FALSE ELSE loading
    /\ statusData' = IF mounted THEN NoData ELSE statusData
    /\ UNCHANGED heartbeatData

\* catch and finally of fetchData: setError(...), setLoading(false); a state
\* update of an unmounted component has no effect
HandleFailure ==
    /\ error' = IF mounted THEN LoadError ELSE error
    /\ loading' = IF mounted THEN FALSE ELSE loading
    /\ UNCHANGED <<statusData, heartbeatData>>

\* CommitSuccess that keeps a heartbeat series already held
CommitSuccess_KeepsOld(p) ==
    /\ statusData' = IF mounted THEN StatusJson(p, pollUrl[p]) ELSE statusData
    /\ heartbeatData' = IF mounted /\ heartbeatData = NoData
                        THEN HeartbeatJson(p, pollUrl[p]) ELSE heartbeatData
    /\ error' = IF mounted THEN NoError ELSE error
    /\ loading' = IF mounted THEN FALSE ELSE loading

\* the end of the try block and finally: setStatusData, setHeartbeatData,
\* setError(null), setLoading(false)
CommitSuccess(p) ==
    /\ statusData' = IF mounted THEN StatusJson(p, pollUrl[p]) ELSE statusData
    /\ heartbeatData' = IF mounted THEN HeartbeatJson(p, pollUrl[p]) ELSE heartbeatData
    /\ error' = IF mounted THEN NoError ELSE error
    /\ loading' = IF mounted THEN FALSE ELSE loading

\* fetchData() up to its first await, as invocation nextPoll closing over u:
\* setLoading(true), the two URLs, and either the throw on equal URLs (caught
\* at once) or the two requests sent
StartFetchData(u) ==
    /\ nextPoll <= MaxPolls
    /\ pollUrl' = [pollUrl EXCEPT ![nextPoll] = u]
    /\ nextPoll' = nextPoll + 1
    /\ IF StatusUrl(u) = HeartbeatUrl(u)
       THEN /\ pollState' = [pollState EXCEPT ![nextPoll] = "failed"]
            /\ HandleFailure
       ELSE /\ pollState' = [pollState EXCEPT ![nextPoll] = "fetching"]
            /\ loading' = TRUE
            /\ UNCHANGED <<statusData, heartbeatData, error>>

\* the clean-up of the effect: clearInterval(interval)
Cleanup ==
    /\ intervalOn' = FALSE
    /\ pollStale' = [p \in Polls |-> pollStale[p] \/ pollState[p] # "unstarted"]

\* the effect runs after the render that saw a new uptimeKumaApiUrl (the
\* first render included), its previous clean-up first
RunEffect ==
    /\ mounted
    /\ effectPending
    /\ effectPending' = FALSE
    /\ IF uptimeKumaApiUrl = <<>>
       THEN /\ Cleanup
            /\ loading' = FALSE
            /\ UNCHANGED <<intervalUrl, statusData, heartbeatData, error,
                           pollState, pollUrl, nextPoll>>
       ELSE /\ pollStale' = [p \in Polls |-> pollStale[p] \/ pollState[p] # "unstarted"]
            /\ StartFetchData(uptimeKumaApiUrl)
            /\ intervalOn' = TRUE
            /\ intervalUrl' = uptimeKumaApiUrl
    /\ UNCHANGED <<uptimeKumaApiUrl, mounted>>
    /\ UNCHANGED segVars

\* useAppConfig gives another uptimeKumaApiUrl; pending effects are flushed
\* before a new render
ChangeUrl ==
    /\ mounted
    /\ ~effectPending
    /\ \E u \in Urls \ {uptimeKumaApiUrl} : uptimeKumaApiUrl' = u
    /\ effectPending' = TRUE
    /\ UNCHANGED <<mounted, intervalOn, intervalUrl, statusData, heartbeatData,
                   loading, error, pollState, pollUrl, pollStale, nextPoll>>
    /\ UNCHANGED segVars

\* the component unmounts: the clean-up runs
Unmount ==
    /\ mounted
    /\ mounted' = FALSE
    /\ effectPending' = FALSE
    /\ Cleanup
    /\ UNCHANGED <<uptimeKumaApiUrl, intervalUrl, statusData, heartbeatData,
                   loading, error, pollState, pollUrl, nextPoll>>
    /\ UNCHANGED segVars

\* the timer fires: fetchData()
Tick ==
    /\ intervalOn
    /\ StartFetchData(intervalUrl)
    /\ UNCHANGED <<uptimeKumaApiUrl, mounted, effectPending, intervalOn,
                   intervalUrl, pollStale>>
    /\ UNCHANGED segVars

\* Promise.all settles for invocation p: it rejects, or it gives two
\* responses, which are both ok or not
FetchSettled(p) ==
    /\ pollState[p] = "fetching"
    /\ \E rejected \in BOOLEAN, statusOk \in BOOLEAN, heartbeatOk \in BOOLEAN :
         IF rejected \/ ~statusOk \/ ~heartbeatOk
         THEN /\ pollState' = [pollState EXCEPT ![p] = "failed"]
              /\ HandleFailure
         ELSE /\ pollState' = [pollState EXCEPT ![p] = "statusJson"]
              /\ UNCHANGED <<statusData, heartbeatData, loading, error>>
    /\ UNCHANGED <<uptimeKumaApiUrl, mounted, effectPending, intervalOn,
                   intervalUrl, pollUrl, pollStale, nextPoll>>
    /\ UNCHANGED segVars

\* await statusRes.json() settles for invocation p
StatusParsed(p) ==
    /\ pollState[p] = "statusJson"
    /\ \E parsed \in BOOLEAN :
         IF parsed
         THEN /\ pollState' = [pollState EXCEPT ![p] = "heartbeatJson"]
              /\ UNCHANGED <<statusData, heartbeatData, loading, error>>
         ELSE /\ pollState' = [pollState EXCEPT ![p] = "failed"]
              /\ HandleFailure
    /\ UNCHANGED <<uptimeKumaApiUrl, mounted, effectPending, intervalOn,
                   intervalUrl, pollUrl, pollStale, nextPoll>>
    /\ UNCHANGED segVars

\* await heartbeatRes.json() settles for invocation p, and the invocation
\* runs to its end
HeartbeatParsed(p) ==
    /\ pollState[p] = "heartbeatJson"
    /\ \E parsed \in BOOLEAN :
         IF parsed
         THEN /\ pollState' = [pollState EXCEPT ![p] = "succeeded"]
              /\ CommitSuccess(p)
         ELSE /\ pollState' = [pollState EXCEPT ![p] = "failed"]
              /\ HandleFailure
    /\ UNCHANGED <<uptimeKumaApiUrl, mounted, effectPending, intervalOn,
                   intervalUrl, pollUrl, pollStale, nextPoll>>
    /\ UNCHANGED segVars

Next ==
    \/ RunEffect
    \/ ChangeUrl
    \/ Unmount
    \/ Tick
    \/ \E p \in Polls : FetchSettled(p)
    \/ \E p \in Polls : StatusParsed(p)
    \/ \E p \in Polls : HeartbeatParsed(p)

Spec == Init /\ [][Next]_vars

\* ------------------------------------------------------------------------
\* Properties of buildHistorySegments (checked under SpecSegments)
\* ------------------------------------------------------------------------
\* every time of hb parses
AllValid(hb) == \A i \in 1..Len(hb) : GetTime(hb[i].time) # NaN

\* buildHistorySegments has been called
Called == pc \in {"built", "both"}

\* C1: for a non-empty heartbeat list and a positive size, fewer heartbeats
\* than size included, the result has exactly size elements.
C1_LengthIsSize ==
    (Called /\ Len(heartbeats) > 0) => Len(segments) = size

\* a call with fewer heartbeats than buckets
C1_Witness ==
    /\ pc = "built"
    /\ Len(heartbeats) = 2
    /\ size = 3
    /\ Len(segments) = 3

\* the greatest position of hb holding a latest time
LatestIndex(hb) ==
    CHOOSE i \in 1..Len(hb) :
        /\ \A j \in 1..Len(hb) : GetTime(hb[j].time) <= GetTime(hb[i].time)
        /\ \A j \in 1..Len(hb) : GetTime(hb[j].time) = GetTime(hb[i].time) => j <= i

\* C2: for a non-empty heartbeat list (of parseable times) and a positive
\* size, the last bucket holds the heartbeat with the maximum timestamp of
\* the input: no input heartbeat is later, and of several latest ones it is
\* the one given last.
C2_LastIsMostRecent ==
    (Called /\ Len(heartbeats) > 0 /\ AllValid(heartbeats)) =>
        /\ \A i \in 1..Len(heartbeats) :
               GetTime(heartbeats[i].time) <= GetTime(segments[size].time)
        /\ segments[size] = heartbeats[LatestIndex(heartbeats)]

\* a call whose latest heartbeat is given first, two heartbeats to one bucket
C2_Witness ==
    /\ pc = "built"
    /\ Len(heartbeats) = 3
    /\ size = 2
    /\ AllValid(heartbeats)
    /\ GetTime(heartbeats[1].time) = 3000
    /\ GetTime(heartbeats[2].time) = 1000
    /\ GetTime(heartbeats[3].time) = 2000
    /\ segments[2] = heartbeats[1]

\* C3 as stated: a second call on any permutation of the heartbeats returns
\* the same sequence, the same heartbeat in every bucket, also when several
\* heartbeats share a timestamp (stated here for heartbeats of parseable
\* times, so that a violation is one of shared timestamps).
C3_Original_SameOutput ==
    (pc = "both" /\ AllValid(heartbeats)) => segments2 = segments

\* the heartbeats at other positions of hb than those holding h's value
\* that share h's time
SharesTime(hb, h) ==
    \E i \in 1..Len(hb) : hb[i] # h /\ GetTime(hb[i].time) = GetTime(h.time)

\* C3 as amended: for heartbeats of parseable times, a second call on any
\* permutation returns a sequence of the same length with the same timestamp
\* in every bucket, and the same heartbeat in every bucket whose timestamp
\* no different input heartbeat shares.
C3_SameTimes ==
    (pc = "both" /\ AllValid(heartbeats)) =>
        /\ Len(segments2) = Len(segments)
        /\ \A k \in 1..Len(segments) :
              /\ GetTime(segments2[k].time) = GetTime(segments[k].time)
              /\ ~SharesTime(heartbeats, segments[k]) => segments2[k] = segments[k]

\* a second call on the heartbeats in reversed order, the times distinct
C3_Witness ==
    /\ pc = "both"
    /\ Len(heartbeats) = 2
    /\ AllValid(heartbeats)
    /\ GetTime(heartbeats[1].time) > GetTime(heartbeats[2].time)
    /\ shuffled = <<heartbeats[2], heartbeats[1]>>
    /\ size = 1
    /\ segments2 = segments

\* C4: with chunkSize = ceil(len / size) and recent the most recent
\* chunkSize * size heartbeats of the sorted list, bucket i is the last
\* heartbeat of recent[i * chunkSize : (i + 1) * chunkSize] when that chunk
\* is not empty and the most recent heartbeat of recent when it is; empty
\* chunks form a trailing run of bucket indices; the heartbeats t1 (up),
\* t2 (down), t3 (up) with two buckets give <<down at t2, up at t3>>.
C4_ChunkRepresentatives ==
    (Called /\ Len(heartbeats) > 0) =>
        LET len == Len(sorted)
            chunkSize == IF len % size = 0 THEN len \div size ELSE (len \div size) + 1
            window == chunkSize * size
            dropped == IF len > window THEN len - window ELSE 0
            recentLen == len - dropped
            \* positions (one-based, in sorted) of the chunk of bucket i
            chunkAt(i) == { j \in (dropped + 1)..len :
                              /\ j - dropped > i * chunkSize
                              /\ j - dropped <= (i + 1) * chunkSize }
            top(S) == CHOOSE j \in S : \A m \in S : m <= j
        IN  /\ Len(segments) = size
            /\ \A i \in 0..(size - 1) :
                  IF chunkAt(i) # {}
                  THEN segments[i + 1] = sorted[top(chunkAt(i))]
                  ELSE segments[i + 1] = sorted[len]
            /\ \A i \in 0..(size - 1), j \in 0..(size - 1) :
                  (i < j /\ chunkAt(i) = {}) => chunkAt(j) = {}
            /\ ( /\ heartbeats = << [time |-> "1970-01-01T00:00:01Z", status |-> 1],
                                    [time |-> "1970-01-01T00:00:02Z", status |-> 0],
                                    [time |-> "1970-01-01T00:00:03Z", status |-> 1] >>
                 /\ size = 2 )
               => segments = << [time |-> "1970-01-01T00:00:02Z", status |-> 0],
                                [time |-> "1970-01-01T00:00:03Z", status |-> 1] >>

\* the call of the concrete scenario
C4_Witness ==
    /\ pc = "built"
    /\ heartbeats = << [time |-> "1970-01-01T00:00:01Z", status |-> 1],
                       [time |-> "1970-01-01T00:00:02Z", status |-> 0],
                       [time |-> "1970-01-01T00:00:03Z", status |-> 1] >>
    /\ size = 2
    /\ segments[1].status = 0
    /\ segments[2].status = 1

\* C5: for an empty heartbeat list the result is the empty sequence,
\* whatever the size.
C5_EmptyGivesEmpty ==
    (Called /\ Len(heartbeats) = 0) => segments = <<>>

\* a call with no heartbeats and the default size
C5_Witness ==
    /\ pc = "built"
    /\ heartbeats = <<>>
    /\ size = DefaultSize
    /\ Len(segments) = 0

\* C6: the result is ordered oldest to newest (for heartbeats of parseable
\* times): an earlier bucket never holds a later timestamp than a later
\* bucket, the padded buckets included.
C6_OldestToNewest ==
    (Called /\ AllValid(heartbeats)) =>
        \A i \in 1..Len(segments), j \in 1..Len(segments) :
            i < j => GetTime(segments[i].time) <= GetTime(segments[j].time)

\* a call with padded buckets, the heartbeats given newest first
C6_Witness ==
    /\ pc = "built"
    /\ Len(heartbeats) = 2
    /\ AllValid(heartbeats)
    /\ GetTime(heartbeats[1].time) > GetTime(heartbeats[2].time)
    /\ size = 3
    /\ segments[1] = heartbeats[2]
    /\ segments[2] = heartbeats[1]
    /\ segments[3] = heartbeats[1]

\* C7 as stated: a call with a heartbeat whose time does not parse signals
\* InvalidInput instead of returning buckets.
C7_MalformedSignalsInvalidInput ==
    (Called /\ ~AllValid(heartbeats)) => thrown = "InvalidInput"

\* ------------------------------------------------------------------------
\* Properties of the polling effect (checked under Spec)
\* ------------------------------------------------------------------------
\* invocation p of fetchData ends in this step with the given result
Ends(p, result) == pollState[p] # result /\ pollState'[p] = result

\* C8: a successful poll replaces the held data wholesale: right after it,
\* statusData and heartbeatData are exactly that poll's two responses and
\* error is null.
C8_SuccessReplaces ==
    [][ \A p \in Polls :
          (mounted /\ Ends(p, "succeeded")) =>
              /\ statusData' = [poll |-> p, from |-> StatusUrl(pollUrl[p])]
              /\ heartbeatData' = [poll |-> p, from |-> HeartbeatUrl(pollUrl[p])]
              /\ error' = NoError ]_vars

\* the second poll succeeded after the first had, and its data is held
C8_Witness ==
    /\ mounted
    /\ pollState[1] = "succeeded"
    /\ pollState[2] = "succeeded"
    /\ statusData.poll = 2
    /\ heartbeatData.poll = 2
    /\ error = NoError

\* C9 as stated: the held data is never overwritten by the response of a
\* poll started earlier than the poll whose response is held, nor by a poll
\* started before the effect was cleaned up.
C9_NoStaleOverwrite ==
    [][ \A p \in Polls :
          (Ends(p, "succeeded") /\ statusData' # statusData) =>
              /\ p > statusData.poll
              /\ ~pollStale[p] ]_vars

\* statusData and heartbeatData are both null or both of one poll
PairedData ==
    \/ statusData = NoData /\ heartbeatData = NoData
    \/ /\ statusData.poll \in Polls
       /\ heartbeatData.poll = statusData.poll
       /\ statusData.from = StatusUrl(pollUrl[statusData.poll])
       /\ heartbeatData.from = HeartbeatUrl(pollUrl[statusData.poll])

\* C10: statusData and heartbeatData are always both null or both the
\* responses of one poll; a poll that fails sets error, changes neither
\* statusData nor heartbeatData, and ends with loading false.
C10_FailureKeepsData ==
    /\ []PairedData
    /\ [][ \A p \in Polls :
             (mounted /\ Ends(p, "failed")) =>
                 /\ error' = LoadError
                 /\ statusData' = statusData
                 /\ heartbeatData' = heartbeatData
                 /\ loading' = FALSE ]_vars

\* a poll failed after another had stored its data
C10_Witness ==
    /\ mounted
    /\ \E p \in Polls : pollState[p] = "failed"
    /\ statusData # NoData
    /\ heartbeatData # NoData
    /\ error = LoadError
    /\ loading = FALSE

====
